---- MODULE Spec2Model ----
(***************************************************************************)
(* Model of app.py, the Streamlit page "Gene Cluster Prediction for E1".   *)
(* The script is re-executed top to bottom on every user interaction (a    *)
(* "pass").  A pass is modelled as the sequence of its steps; the state    *)
(* between passes is the form state kept by the host and the two artifact  *)
(* files on disk.  Expression values are counted in tenths (step = 0.1),   *)
(* importance scores in hundredths.                                        *)
(***************************************************************************)
EXTENDS Integers, Sequences, FiniteSets, TLC

VARIABLES
    pc,            \* position of the script in the current pass
    trigger,       \* the button whose click started this pass, or "none"
    form,          \* host-kept value of each number_input (tenths)
    edits,         \* number of committed edits so far (bounded)
    files,         \* which artifact files exist on disk
    input_data,    \* the dict built by the loop, as a sequence of <<key, value>>
    input_df,      \* the rows of the DataFrame handed to the scaler
    input_scaled,  \* result of scaler.transform in this pass
    prediction,    \* result of model.predict in this pass
    predictArg,    \* what model.predict was called with in this pass
    fig,           \* the bars of the figure handed to st.pyplot
    display,       \* elements emitted to the page in this pass, in order
    calls,         \* external calls made in this pass, in order
    prev           \* kind of the previous pass (history)

vars == <<pc, trigger, form, edits, files, input_data, input_df, input_scaled,
          prediction, predictArg, fig, display, calls, prev>>

\* ---------------------------------------------------------------- bounds
MaxVal == 2
MaxEdits == 1
MaxLabel == 2
MaxPredLen == 1

\* ------------------------------------------------------------- constants
min_value == 0
step == 1

Range(s) == {s[i] : i \in DOMAIN s}

gene_names == <<"TESPA1", "SLC17A7", "LINC00507", "KCNIP1", "ANKRD33B",
                "LINC00508", "SFTA1P", "LINC00152", "TBR1", "NPTX1">>

\* Variant: the last score is dropped from the list.
feature_importance_Short == <<25, 18, 15, 10, 8, 7, 5, 4, 3>>

feature_importance == <<25, 18, 15, 10, 8, 7, 5, 4, 3, 2>>

features == <<"TESPA1", "SLC17A7", "LINC00507", "KCNIP1", "ANKRD33B",
              "LINC00508", "SFTA1P", "LINC00152", "TBR1", "NPTX1">>

ModelPath == "model.pkl"
ScalerPath == "scaler.pkl"

\* ------------------------------------------------------- page elements
Item(kind, text) == [kind |-> kind, text |-> text]

MissingArtifactError ==
    Item("error", "Model or Scaler file not found. Please upload the necessary files.")

Header ==
    << Item("markdown", "Gene Cluster Prediction for E1"),
       Item("image", "./images/dna.png"),
       Item("markdown", "dimmed-background"),
       Item("markdown", "Welcome to the Gene Cluster Prediction Tool") >>

NumberInputItem(gene) == Item("number_input", gene)

ScalingError == Item("error", "Error during data scaling")

PredictButton == Item("button", "Make Prediction")

MemberMessage == Item("write", "The sample belongs to **E1 gene cluster**!")

NotMemberMessage ==
    Item("write", "The sample does **NOT** belong to the **E1 gene cluster**.")

PredictionError == Item("error", "Error during prediction")

PyplotItem == Item("pyplot", "Feature Importance (Gini Index)")

Footer == << Item("markdown", "Contact Information") >>

SidebarHeader == Item("sidebar.header", "Gene Information")

\* The ten sidebar blocks: button label, heading, description (first sentence).
GeneInfo ==
    << [button |-> "TESPA1", heading |-> "### TESPA1 - Tetraspanin 1",
        text |-> "**TESPA1** is involved in neurotransmitter regulation and plays a critical role in neuronal function."],
       [button |-> "SLC17A7", heading |-> "### SLC17A7 - Solute Carrier Family 17 Member 7",
        text |-> "**SLC17A7** is involved in the transport of neurotransmitters in synaptic vesicles."],
       [button |-> "LINC00507", heading |-> "### LINC00507 - Long Intergenic Non-Protein Coding RNA 507",
        text |-> "**LINC00507** is a long non-coding RNA that is involved in regulating gene expression at the transcriptional level."],
       [button |-> "KCNIP1", heading |-> "### KCNIP1 - Potassium Channel Interacting Protein 1",
        text |-> "**KCNIP1** encodes a protein that modulates neuronal excitability, synaptic plasticity, and synaptic transmission."],
       [button |-> "ANKRD33B", heading |-> "### ANKRD33B - Ankyrin Repeat Domain 33B",
        text |-> "**ANKRD33B** is implicated in neurodevelopment and plays a role in synaptic signaling."],
       [button |-> "LINC00508", heading |-> "### LINC00508 - Long Intergenic Non-Protein Coding RNA 508",
        text |-> "**LINC00508** is a long non-coding RNA that plays a significant role in regulating gene expression and cellular processes."],
       [button |-> "SFTA1P", heading |-> "### SFTA1P - Surfactant Associated 1 Pseudogene",
        text |-> "**SFTA1P** is involved in pulmonary surfactant regulation and may have implications for neurological diseases as well."],
       [button |-> "LINC00152", heading |-> "### LINC00152 - Long Intergenic Non-Protein Coding RNA 152",
        text |-> "**LINC00152** is a long non-coding RNA that regulates gene expression."],
       [button |-> "TBR1", heading |-> "### TBR1 - T-Box Brain Transcription Factor 1",
        text |-> "**TBR1** is a transcription factor involved in the development of neurons and their organization in the brain."],
       [button |-> "NPTX1", heading |-> "### NPTX1 - Neuronal Pentraxin 1",
        text |-> "**NPTX1** is involved in synaptic signaling and plasticity."] >>

SidebarButtonItem(label) == Item("sidebar.button", label)
SidebarHeading(e) == Item("sidebar.markdown", e.heading)
SidebarText(e) == Item("sidebar.write", e.text)

\* ------------------------------------------------------ external calls
Call(fn, ok) == [fn |-> fn, ok |-> ok]
LoadModelCall(ok) == Call("joblib.load(model.pkl)", ok)
LoadScalerCall(ok) == Call("joblib.load(scaler.pkl)", ok)
TransformCall(ok) == Call("scaler.transform", ok)
PredictCall(ok) == Call("model.predict", ok)

\* The scaler is opaque: its output is a token that names the rows it was
\* computed from.
Scaled(df) == [scaled_from |-> df]
NotScaled == [scaled_from |-> <<>>]

Labels == -1 .. MaxLabel

\* What model.predict may return: a sequence of labels, possibly empty.
PredictReturns == UNION {[1 .. n -> Labels] : n \in 0 .. MaxPredLen}

\* ------------------------------------------------------------- widgets
\* Variant: the widget is created without min_value.
NumberInputAccepts_NoMin(v) == TRUE

\* st.number_input(..., min_value=0.0, step=0.1): a value below min_value
\* is not committed by the widget.
NumberInputAccepts(v) == v >= min_value

\* Value returned by st.number_input for a gene in the current pass.
number_input(gene) == form[gene]

\* Variant: the prediction runs on every pass, clicked or not.
MakePredictionPressed_Always == TRUE

\* Variant: any button click counts as 'Make Prediction'.
MakePredictionPressed_AnyClick == trigger # "none"

\* st.button('Make Prediction'): True only in the pass its click started.
MakePredictionPressed == trigger = "Make Prediction"

\* Variant: every sidebar block opens when any sidebar button is clicked.
SidebarPressed_Any(label) == trigger \in Range(gene_names)

\* st.sidebar.button(label): True only in the pass its click started.
SidebarPressed(label) == trigger = label

\* input_data[key] = value on a dict kept in insertion order.
DictSet(d, key, value) ==
    IF \E j \in DOMAIN d : d[j][1] = key
    THEN [j \in DOMAIN d |-> IF d[j][1] = key THEN <<key, value>> ELSE d[j]]
    ELSE Append(d, <<key, value>>)

RECURSIVE InputLoop(_, _)
InputLoop(i, d) ==
    IF i > Len(gene_names) THEN d
    ELSE InputLoop(i + 1, DictSet(d, gene_names[i], number_input(gene_names[i])))

RECURSIVE InputWidgets(_)
InputWidgets(i) ==
    IF i > Len(gene_names) THEN <<>>
    ELSE <<NumberInputItem(gene_names[i])>> \o InputWidgets(i + 1)

\* Variant: two separate tests, == 1 and == 0, instead of if/else.
PredictionMessages_TwoIfs(p) ==
    IF p[1] = 1 THEN <<MemberMessage>>
    ELSE IF p[1] = 0 THEN <<NotMemberMessage>> ELSE <<>>

\* Variant: the label is tested for truth instead of compared with 1.
PredictionMessages_Truthy(p) ==
    IF p[1] # 0 THEN <<MemberMessage>> ELSE <<NotMemberMessage>>

\* if prediction[0] == 1: ... else: ...   (prediction has a first element)
PredictionMessages(p) ==
    IF p[1] = 1 THEN <<MemberMessage>> ELSE <<NotMemberMessage>>

\* sns.barplot(x=feature_importance, y=features): one bar per position.
Barplot(x, y) ==
    [i \in 1 .. (IF Len(x) < Len(y) THEN Len(x) ELSE Len(y)) |-> <<y[i], x[i]>>]

ExpanderItems ==
    << Item("expander", "View More Information"),
       Item("markdown", "Gene Importance in E1 Cluster Prediction"),
       PyplotItem,
       Item("markdown", "Related Information") >>

\* One "if st.sidebar.button(...)" block.
SidebarBlock(e) ==
    <<SidebarButtonItem(e.button)>> \o
    (IF SidebarPressed(e.button) THEN <<SidebarHeading(e), SidebarText(e)>> ELSE <<>>)

RECURSIVE SidebarFrom(_)
SidebarFrom(i) ==
    IF i > Len(GeneInfo) THEN <<>>
    ELSE SidebarBlock(GeneInfo[i]) \o SidebarFrom(i + 1)

SidebarItems == <<SidebarHeader>> \o SidebarFrom(1)

\* ------------------------------------------------------------ one pass
TypeOK ==
    /\ pc \in {"load", "inputs", "scale", "button", "expander", "footer", "sidebar", "done"}
    /\ trigger \in {"none", "Make Prediction"} \cup Range(gene_names)
    /\ form \in [Range(gene_names) -> Int]
    /\ edits \in 0 .. MaxEdits
    /\ files \in [{ModelPath, ScalerPath} -> BOOLEAN]

Init ==
    /\ pc = "load"
    /\ trigger = "none"
    /\ form = [g \in Range(gene_names) |-> min_value]
    /\ edits = 0
    /\ files \in [{ModelPath, ScalerPath} -> BOOLEAN]
    /\ input_data = <<>>
    /\ input_df = <<>>
    /\ input_scaled = NotScaled
    /\ prediction = <<>>
    /\ predictArg = NotScaled
    /\ fig = <<>>
    /\ display = <<>>
    /\ calls = <<>>
    /\ prev = "first"

\* Lines 8-10, no exception: both artifacts are loaded.
LoadArtifacts ==
    /\ pc = "load"
    /\ files[ModelPath] /\ files[ScalerPath]
    /\ calls' = calls \o <<LoadModelCall(TRUE), LoadScalerCall(TRUE)>>
    /\ pc' = "inputs"
    /\ UNCHANGED <<trigger, form, edits, files, input_data, input_df, input_scaled,
                   prediction, predictArg, fig, display, prev>>

\* Variant: the error is reported but st.stop is not called.
LoadArtifactsMissing_NoStop ==
    /\ pc = "load"
    /\ ~(files[ModelPath] /\ files[ScalerPath])
    /\ calls' = calls \o (IF files[ModelPath]
                          THEN <<LoadModelCall(TRUE), LoadScalerCall(FALSE)>>
                          ELSE <<LoadModelCall(FALSE)>>)
    /\ display' = Append(display, MissingArtifactError)
    /\ pc' = "inputs"
    /\ UNCHANGED <<trigger, form, edits, files, input_data, input_df, input_scaled,
                   prediction, predictArg, fig, prev>>

\* Lines 8-13: the first joblib.load that finds no file raises
\* FileNotFoundError; st.error, then st.stop ends the pass.
LoadArtifactsMissing ==
    /\ pc = "load"
    /\ ~(files[ModelPath] /\ files[ScalerPath])
    /\ calls' = calls \o (IF files[ModelPath]
                          THEN <<LoadModelCall(TRUE), LoadScalerCall(FALSE)>>
                          ELSE <<LoadModelCall(FALSE)>>)
    /\ display' = Append(display, MissingArtifactError)
    /\ pc' = "done"
    /\ UNCHANGED <<trigger, form, edits, files, input_data, input_df, input_scaled,
                   prediction, predictArg, fig, prev>>

\* Lines 16-65: title, image, style, welcome text, the ten number inputs,
\* the dict and the one-row DataFrame.
RenderInputs ==
    /\ pc = "inputs"
    /\ display' = display \o Header \o InputWidgets(1)
    /\ input_data' = InputLoop(1, <<>>)
    /\ input_df' = <<InputLoop(1, <<>>)>>
    /\ pc' = "scale"
    /\ UNCHANGED <<trigger, form, edits, files, input_scaled, prediction,
                   predictArg, fig, calls, prev>>

\* Lines 68-69: scaler.transform returns.
ScaleReturns ==
    /\ pc = "scale"
    /\ calls' = Append(calls, TransformCall(TRUE))
    /\ input_scaled' = Scaled(input_df)
    /\ pc' = "button"
    /\ UNCHANGED <<trigger, form, edits, files, input_data, input_df, prediction,
                   predictArg, fig, display, prev>>

\* Variant: the error is reported but st.stop is not called.
ScaleRaises_NoStop ==
    /\ pc = "scale"
    /\ calls' = Append(calls, TransformCall(FALSE))
    /\ display' = Append(display, ScalingError)
    /\ pc' = "button"
    /\ UNCHANGED <<trigger, form, edits, files, input_data, input_df, input_scaled,
                   prediction, predictArg, fig, prev>>

\* Lines 68-72: scaler.transform raises; st.error, then st.stop ends the pass.
ScaleRaises ==
    /\ pc = "scale"
    /\ calls' = Append(calls, TransformCall(FALSE))
    /\ display' = Append(display, ScalingError)
    /\ pc' = "done"
    /\ UNCHANGED <<trigger, form, edits, files, input_data, input_df, input_scaled,
                   prediction, predictArg, fig, prev>>

\* Line 75: the button is rendered and was not clicked.
ButtonNotPressed ==
    /\ pc = "button"
    /\ ~MakePredictionPressed
    /\ display' = Append(display, PredictButton)
    /\ pc' = "expander"
    /\ UNCHANGED <<trigger, form, edits, files, input_data, input_df, input_scaled,
                   prediction, predictArg, fig, calls, prev>>

\* Lines 75-86: model.predict returns p; prediction[0] raises IndexError on
\* an empty p, which the except clause reports.
PredictionShown ==
    /\ pc = "button"
    /\ MakePredictionPressed
    /\ \E p \in PredictReturns :
          /\ prediction' = p
          /\ display' = Append(display, PredictButton) \o
                           (IF Len(p) = 0 THEN <<PredictionError>>
                            ELSE PredictionMessages(p))
    /\ predictArg' = input_scaled
    /\ calls' = Append(calls, PredictCall(TRUE))
    /\ pc' = "expander"
    /\ UNCHANGED <<trigger, form, edits, files, input_data, input_df, input_scaled,
                   fig, prev>>

\* Variant: the except clause also calls st.stop.
PredictionRaises_Stops ==
    /\ pc = "button"
    /\ MakePredictionPressed
    /\ predictArg' = input_scaled
    /\ calls' = Append(calls, PredictCall(FALSE))
    /\ display' = display \o <<PredictButton, PredictionError>>
    /\ pc' = "done"
    /\ UNCHANGED <<trigger, form, edits, files, input_data, input_df, input_scaled,
                   prediction, fig, prev>>

\* Lines 75-78, 85-86: model.predict raises; st.error, the pass goes on.
PredictionRaises ==
    /\ pc = "button"
    /\ MakePredictionPressed
    /\ predictArg' = input_scaled
    /\ calls' = Append(calls, PredictCall(FALSE))
    /\ display' = display \o <<PredictButton, PredictionError>>
    /\ pc' = "expander"
    /\ UNCHANGED <<trigger, form, edits, files, input_data, input_df, input_scaled,
                   prediction, fig, prev>>

\* Lines 89-122: the expander with the importance chart.
RenderExpander ==
    /\ pc = "expander"
    /\ fig' = Barplot(feature_importance, features)
    /\ display' = display \o ExpanderItems
    /\ pc' = "footer"
    /\ UNCHANGED <<trigger, form, edits, files, input_data, input_df, input_scaled,
                   prediction, predictArg, calls, prev>>

\* Lines 126-131.
RenderFooter ==
    /\ pc = "footer"
    /\ display' = display \o Footer
    /\ pc' = "sidebar"
    /\ UNCHANGED <<trigger, form, edits, files, input_data, input_df, input_scaled,
                   prediction, predictArg, fig, calls, prev>>

\* Lines 134-205: the sidebar header and the ten button blocks.
RenderSidebar ==
    /\ pc = "sidebar"
    /\ display' = display \o SidebarItems
    /\ pc' = "done"
    /\ UNCHANGED <<trigger, form, edits, files, input_data, input_df, input_scaled,
                   prediction, predictArg, fig, calls, prev>>

\* -------------------------------------------------- between two passes
Shown(item) == item \in Range(display)

\* What the pass that just ended amounted to (history only).
PassKind ==
    IF Shown(MissingArtifactError) THEN "load_halt"
    ELSE IF Shown(ScalingError) THEN "scale_halt"
    ELSE IF Shown(MemberMessage) \/ Shown(NotMemberMessage) THEN "verdict"
    ELSE IF Shown(PredictionError) THEN "prediction_error"
    ELSE "plain"

\* The host re-executes the script from its first line: the page and every
\* name the script binds start afresh; only the form state survives.
StartPass(t) ==
    /\ pc' = "load"
    /\ trigger' = t
    /\ prev' = PassKind
    /\ input_data' = <<>>
    /\ input_df' = <<>>
    /\ input_scaled' = NotScaled
    /\ prediction' = <<>>
    /\ predictArg' = NotScaled
    /\ fig' = <<>>
    /\ display' = <<>>
    /\ calls' = <<>>

\* The user asks for a rerun without touching any widget.
Rerun ==
    /\ pc = "done"
    /\ StartPass("none")
    /\ UNCHANGED <<form, edits, files>>

\* The user types v into the number input of gene g (line 62).
EditInput ==
    /\ pc = "done"
    /\ edits < MaxEdits
    /\ \E g \in Range(gene_names), v \in -1 .. MaxVal :
          /\ Shown(NumberInputItem(g))
          /\ NumberInputAccepts(v)
          /\ v # form[g]
          /\ form' = [form EXCEPT ![g] = v]
    /\ edits' = edits + 1
    /\ StartPass("none")
    /\ UNCHANGED files

\* The user presses + or - on the number input of gene g (step=0.1).
StepInput ==
    /\ pc = "done"
    /\ edits < MaxEdits
    /\ \E g \in Range(gene_names), d \in {step, -step} :
          /\ Shown(NumberInputItem(g))
          /\ form[g] + d <= MaxVal
          /\ NumberInputAccepts(form[g] + d)
          /\ form' = [form EXCEPT ![g] = @ + d]
    /\ edits' = edits + 1
    /\ StartPass("none")
    /\ UNCHANGED files

\* The user clicks 'Make Prediction' (line 75).
ClickMakePrediction ==
    /\ pc = "done"
    /\ Shown(PredictButton)
    /\ StartPass("Make Prediction")
    /\ UNCHANGED <<form, edits, files>>

\* The user clicks one of the ten sidebar buttons (lines 137-200).
ClickGene ==
    /\ pc = "done"
    /\ \E i \in DOMAIN GeneInfo :
          /\ Shown(SidebarButtonItem(GeneInfo[i].button))
          /\ StartPass(GeneInfo[i].button)
    /\ UNCHANGED <<form, edits, files>>

\* Between passes an artifact file is put in place or taken away.
ArtifactChange ==
    /\ pc = "done"
    /\ \E f \in DOMAIN files : files' = [files EXCEPT ![f] = ~@]
    /\ UNCHANGED <<pc, trigger, form, edits, input_data, input_df, input_scaled,
                   prediction, predictArg, fig, display, calls, prev>>

Next ==
    \/ LoadArtifacts
    \/ LoadArtifactsMissing
    \/ RenderInputs
    \/ ScaleReturns
    \/ ScaleRaises
    \/ ButtonNotPressed
    \/ PredictionShown
    \/ PredictionRaises
    \/ RenderExpander
    \/ RenderFooter
    \/ RenderSidebar
    \/ Rerun
    \/ EditInput
    \/ StepInput
    \/ ClickMakePrediction
    \/ ClickGene
    \/ ArtifactChange

Spec == Init /\ [][Next]_vars

\* ============================================================ properties
Made(call) == call \in Range(calls)
LoadedOK == Made(LoadModelCall(TRUE)) /\ Made(LoadScalerCall(TRUE))
ScaledOK == Made(TransformCall(TRUE))
Occurrences(item) == Cardinality({k \in DOMAIN display : display[k] = item})
VerdictShown == Shown(MemberMessage) \/ Shown(NotMemberMessage)
AfterButton == pc \in {"expander", "footer", "sidebar", "done"}
CallNames == [k \in DOMAIN calls |-> calls[k].fn]
AllZero == \A g \in Range(gene_names) : form[g] = 0

RECURSIVE SumScores(_)
SumScores(bars) ==
    IF bars = <<>> THEN 0 ELSE Head(bars)[2] + SumScores(Tail(bars))

\* C1: in a pass where both artifacts loaded, scaling succeeded, 'Make
\* Prediction' is the trigger and predict returned a label, exactly one of
\* the membership / non-membership messages is on the page, once.
C1_ExactlyOneVerdict ==
    (AfterButton /\ LoadedOK /\ ScaledOK /\ trigger = "Make Prediction"
        /\ Made(PredictCall(TRUE)) /\ Len(prediction) >= 1)
    => Occurrences(MemberMessage) + Occurrences(NotMemberMessage) = 1

C1_Witness ==
    /\ pc = "done" /\ AllZero /\ trigger = "Make Prediction"
    /\ Made(PredictCall(TRUE)) /\ prediction = <<0>>
    /\ Shown(NotMemberMessage) /\ ~Shown(MemberMessage)

\* C2: when predict raises, no verdict is shown, the prediction error is
\* shown, and the pass goes on: the expander, the footer and the sidebar
\* follow the error on the page.
C2_PredictErrorScoped ==
    Made(PredictCall(FALSE)) =>
        /\ AfterButton
        /\ ~VerdictShown
        /\ Occurrences(PredictionError) = 1
        /\ (pc = "done" =>
              \E k \in DOMAIN display :
                  /\ display[k] = PredictionError
                  /\ SubSeq(display, k + 1, Len(display)) =
                         ExpanderItems \o Footer \o SidebarItems)

C2_Witness ==
    /\ pc = "done" /\ Made(PredictCall(FALSE)) /\ Shown(PredictionError)
    /\ Shown(PyplotItem) /\ Shown(SidebarHeader)

\* C3: when scale raises, the scaling error is the last thing on the page
\* and the pass is over: no prediction button, no predict call, no verdict,
\* no scaled record.
C3_ScaleErrorHalts ==
    Made(TransformCall(FALSE)) =>
        /\ pc = "done"
        /\ display # <<>> /\ display[Len(display)] = ScalingError
        /\ ~Shown(PredictButton)
        /\ ~Made(PredictCall(TRUE)) /\ ~Made(PredictCall(FALSE))
        /\ ~VerdictShown /\ ~Shown(PredictionError)
        /\ input_scaled = NotScaled /\ predictArg = NotScaled

C3_Witness ==
    /\ pc = "done" /\ Made(TransformCall(FALSE)) /\ Shown(ScalingError)
    /\ trigger = "Make Prediction" /\ ~AllZero

\* C4: a pass that begins with an artifact file absent ends at the load
\* step with only the missing-artifact message: no input widget, no scale,
\* no prediction button; this is so for every pass, also after a halted one.
C4_MissingArtifactHalts ==
    [][(pc = "load" /\ (~files[ModelPath] \/ ~files[ScalerPath])) =>
          /\ pc' = "done"
          /\ display' = <<MissingArtifactError>>
          /\ \A g \in Range(gene_names) : NumberInputItem(g) \notin Range(display')
          /\ PredictButton \notin Range(display')
          /\ \A k \in DOMAIN calls' :
                calls'[k].fn \notin {"scaler.transform", "model.predict"}
          /\ input_df' = <<>>]_vars

C4_Witness ==
    /\ pc = "done" /\ prev = "load_halt" /\ display = <<MissingArtifactError>>
    /\ files[ModelPath] /\ ~files[ScalerPath]

FixedBars ==
    << <<"TESPA1", 25>>, <<"SLC17A7", 18>>, <<"LINC00507", 15>>, <<"KCNIP1", 10>>,
       <<"ANKRD33B", 8>>, <<"LINC00508", 7>>, <<"SFTA1P", 5>>, <<"LINC00152", 4>>,
       <<"TBR1", 3>>, <<"NPTX1", 2>> >>

ChartIsFixed ==
    /\ Occurrences(PyplotItem) = 1
    /\ Len(fig) = 10
    /\ SumScores(fig) = 97
    /\ fig = FixedBars

\* C5 as stated: every pass renders the chart of exactly 10 bars summing to
\* 0.97, whatever the outcome of loading, scale and classify.
C5_ChartInEveryPass == pc = "done" => ChartIsFixed

\* C5 amended: every pass that gets past loading and scaling renders the
\* chart once, with the same ten (gene, score) bars summing to 0.97 whatever
\* the form values, the trigger and the outcome of classify; a pass halted
\* by a missing artifact or a scaling error renders no chart.
C5_ChartWhenNotHalted ==
    /\ (pc = "done" /\ ScaledOK) => ChartIsFixed
    /\ Shown(PyplotItem) => (ScaledOK /\ ChartIsFixed)
    /\ (pc = "done" /\ ~ScaledOK) => (~Shown(PyplotItem) /\ fig = <<>>)

C5_Witness ==
    /\ pc = "done" /\ ChartIsFixed /\ ~AllZero
    /\ trigger = "Make Prediction" /\ Made(PredictCall(FALSE))

DescriptionShown(e) == Shown(SidebarHeading(e)) \/ Shown(SidebarText(e))

\* C6 as stated: a pass in which a sidebar button is the trigger shows that
\* gene's heading and description.
C6_ToggleAlwaysReveals ==
    \A i \in DOMAIN GeneInfo :
        (pc = "done" /\ trigger = GeneInfo[i].button) =>
            (Shown(SidebarHeading(GeneInfo[i])) /\ Shown(SidebarText(GeneInfo[i])))

\* C6 amended: a pass in which a sidebar button is the trigger and which is
\* not halted by a missing artifact or a scaling error shows that gene's
\* heading and description, once each, right after its button; no pass shows
\* the heading or description of a gene whose button is not the trigger, so
\* a pass without a sidebar trigger shows none.
C6_ToggleRevealsOwnText ==
    \A i \in DOMAIN GeneInfo :
        /\ (pc = "done" /\ ScaledOK /\ trigger = GeneInfo[i].button) =>
              /\ Occurrences(SidebarHeading(GeneInfo[i])) = 1
              /\ Occurrences(SidebarText(GeneInfo[i])) = 1
              /\ \E k \in DOMAIN display :
                    /\ display[k] = SidebarButtonItem(GeneInfo[i].button)
                    /\ k + 2 <= Len(display)
                    /\ display[k + 1] = SidebarHeading(GeneInfo[i])
                    /\ display[k + 2] = SidebarText(GeneInfo[i])
        /\ DescriptionShown(GeneInfo[i]) => trigger = GeneInfo[i].button

C6_Witness ==
    /\ pc = "done" /\ trigger = "KCNIP1"
    /\ Shown(Item("sidebar.markdown", "### KCNIP1 - Potassium Channel Interacting Protein 1"))
    /\ \A i \in DOMAIN GeneInfo :
          GeneInfo[i].button # "KCNIP1" => ~DescriptionShown(GeneInfo[i])

TransformCalled == Made(TransformCall(TRUE)) \/ Made(TransformCall(FALSE))

\* C7: the record handed to scale is one row with exactly the ten gene
\* keys, once each and in the listed order, every value >= 0.0 and equal to
\* the form's current value (0.0 when nothing was entered).
C7_RecordWellFormed ==
    TransformCalled =>
        /\ Len(input_df) = 1
        /\ [k \in DOMAIN input_df[1] |-> input_df[1][k][1]] =
              <<"TESPA1", "SLC17A7", "LINC00507", "KCNIP1", "ANKRD33B",
                "LINC00508", "SFTA1P", "LINC00152", "TBR1", "NPTX1">>
        /\ \A k \in DOMAIN input_df[1] :
              /\ input_df[1][k][2] >= 0
              /\ input_df[1][k][2] = form[input_df[1][k][1]]
              /\ edits = 0 => input_df[1][k][2] = 0

C7_Witness ==
    /\ TransformCalled /\ edits = MaxEdits
    /\ input_df[1][4] = <<"KCNIP1", MaxVal>>
    /\ \A k \in DOMAIN input_df[1] : k # 4 => input_df[1][k][2] = 0

CallOrder ==
    <<"joblib.load(model.pkl)", "joblib.load(scaler.pkl)",
      "scaler.transform", "model.predict">>

\* C8: within a pass the external calls are a prefix of load, load, scale,
\* classify, so each is made at most once and in that order; nothing is
\* called after a call that failed; every pass that got past loading calls
\* scale before it reaches the button; classify is called only after both
\* loads and scale succeeded with 'Make Prediction' as the trigger, and its
\* argument is the record scaled in this pass from the current form.
C8_CallOrder ==
    /\ Len(calls) <= Len(CallOrder)
    /\ CallNames = SubSeq(CallOrder, 1, Len(calls))
    /\ \A k \in DOMAIN calls : k < Len(calls) => calls[k].ok
    /\ (LoadedOK /\ pc \notin {"inputs", "scale"}) => TransformCalled
    /\ (Made(PredictCall(TRUE)) \/ Made(PredictCall(FALSE))) =>
          /\ LoadedOK /\ ScaledOK
          /\ trigger = "Make Prediction"
          /\ predictArg = input_scaled
          /\ input_scaled = Scaled(input_df)
          /\ input_df = <<[k \in DOMAIN gene_names |->
                              <<gene_names[k], form[gene_names[k]]>>]>>

C8_Witness ==
    /\ pc = "done" /\ Len(calls) = 4 /\ calls[4] = PredictCall(TRUE)
    /\ ~AllZero /\ predictArg = Scaled(input_df)

\* The page a finished pass shows, written out from the form, the trigger
\* and what the external calls did.
PageOf(t, cs, p) ==
    IF LoadModelCall(FALSE) \in Range(cs) \/ LoadScalerCall(FALSE) \in Range(cs)
    THEN <<MissingArtifactError>>
    ELSE Header \o [k \in DOMAIN gene_names |-> NumberInputItem(gene_names[k])] \o
         (IF TransformCall(FALSE) \in Range(cs) THEN <<ScalingError>>
          ELSE <<PredictButton>> \o
               (IF t # "Make Prediction" THEN <<>>
                ELSE IF PredictCall(FALSE) \in Range(cs) \/ p = <<>>
                     THEN <<PredictionError>>
                ELSE IF p[1] = 1 THEN <<MemberMessage>> ELSE <<NotMemberMessage>>) \o
               ExpanderItems \o Footer \o <<SidebarHeader>> \o
               [k \in 1 .. 3 * Len(GeneInfo) |->
                   LET e == GeneInfo[(k + 2) \div 3]
                   IN  IF k % 3 = 1 THEN SidebarButtonItem(e.button)
                       ELSE IF k % 3 = 2 THEN SidebarHeading(e) ELSE SidebarText(e)])

\* C9: a pass whose trigger is not 'Make Prediction' makes no classify call
\* and shows no verdict and no prediction error, whatever the previous pass
\* showed; a verdict and a gene description are never on the same page; and
\* the page of a finished pass is determined by the trigger and the outcomes
\* of this pass's calls alone.
C9_NothingCarriedOver ==
    /\ trigger # "Make Prediction" =>
          /\ ~Made(PredictCall(TRUE)) /\ ~Made(PredictCall(FALSE))
          /\ ~VerdictShown /\ ~Shown(PredictionError)
          /\ prediction = <<>> /\ predictArg = NotScaled
    /\ \A i \in DOMAIN GeneInfo :
          ~((VerdictShown \/ Shown(PredictionError)) /\ DescriptionShown(GeneInfo[i]))
    /\ pc = "done" =>
          LET hidden == {i \in DOMAIN GeneInfo : GeneInfo[i].button # trigger}
              keep(it) == \A i \in hidden :
                             it # SidebarHeading(GeneInfo[i]) /\ it # SidebarText(GeneInfo[i])
          IN  display = SelectSeq(PageOf(trigger, calls, prediction), keep)

C9_Witness ==
    /\ pc = "done" /\ prev = "verdict" /\ trigger = "TBR1"
    /\ Shown(Item("sidebar.markdown", "### TBR1 - T-Box Brain Transcription Factor 1"))
    /\ ~VerdictShown

\* C10: when predict returns, the membership message is shown iff the first
\* returned label is 1, the non-membership message iff there is a first
\* label and it is not 1, and an empty return gives the prediction error
\* and no verdict.
C10_VerdictFollowsFirstLabel ==
    (AfterButton /\ Made(PredictCall(TRUE))) =>
        /\ Shown(MemberMessage) <=> (Len(prediction) >= 1 /\ prediction[1] = 1)
        /\ Shown(NotMemberMessage) <=> (Len(prediction) >= 1 /\ prediction[1] # 1)
        /\ Shown(PredictionError) <=> Len(prediction) = 0

C10_Witness ==
    /\ pc = "done" /\ Made(PredictCall(TRUE)) /\ Len(prediction) >= 1
    /\ prediction[1] > 1 /\ Shown(NotMemberMessage) /\ ~Shown(MemberMessage)

====
